---- MODULE Spec2Model ----
(***************************************************************************)
(* AlertCare ML service (sibi-elwin/AlertCare, ml/): the Silent            *)
(* Deterioration Detector: feature extraction, training, serving.          *)
(*                                                                         *)
(*   features/temporal_features.py      TemporalFeatureEngineer            *)
(*   scoring/stability_scorer.py        HealthStabilityScorer              *)
(*   models/isolation_forest.py         IsolationForestDetector            *)
(*   models/lstm_autoencoder.py         LSTMAutoencoder                    *)
(*   system/sdd_system.py               SDDSystem                          *)
(*   api/services/prediction_service.py validate / convert / predict       *)
(*   api/main.py                        FastAPI handlers                   *)
(*                                                                         *)
(* Numbers.  Python floats are modelled in fixed point:                    *)
(*   - a score is an integer number of 1/10000 points (Pts(100) is 100.0); *)
(*     the detectors produce scores in steps of 1/1000 point, so that the  *)
(*     weights 0.4 and 0.6 apply without rounding;                         *)
(*   - a raw decision value of the forest and a reconstruction error are   *)
(*     integers in units of 1e-6, so that the code's epsilon 1e-6 is 1;    *)
(*   - a timestamp is an integer number of hours.                          *)
(***************************************************************************)
EXTENDS Integers, Sequences, FiniteSets

VARIABLES
    sdd,            \* prediction_service._sdd_system (None, or the SDDSystem's trained fields)
    models_loaded,  \* main._models_loaded
    started,        \* whether main.startup_event has run
    call,           \* the operation in progress: its input, what it did, its result
    threads         \* the SDDSystem.predict calls running in parallel, one per thread

vars == <<sdd, models_loaded, started, call, threads>>

-----------------------------------------------------------------------------
(* Bounds of the model *)

\* the longest list of readings / the most rows of a data frame
MaxLen == 3

Pts(n) == n * 10000

Min(a, b) == IF a < b THEN a ELSE b
Max(a, b) == IF a > b THEN a ELSE b

-----------------------------------------------------------------------------
(* scoring/stability_scorer.py *)

\* HealthStabilityScorer.__init__ defaults 0.4 and 0.6, in tenths
isolation_weight == 4
lstm_weight == 6

\* np.clip(x, lo, hi)
clip(x, lo, hi) == IF x < lo THEN lo ELSE IF x > hi THEN hi ELSE x

\* faulty variant: the weighted sum without the clipping of the inputs
calculate_score_unclipped(isolation_score, lstm_score) ==
    (isolation_weight * isolation_score + lstm_weight * lstm_score) \div 10

\* faulty variant: weights that do not add up to 1 (0.6 and 0.6)
calculate_score_weights(isolation_score, lstm_score) ==
    (lstm_weight * clip(isolation_score, 0, Pts(100))
       + lstm_weight * clip(lstm_score, 0, Pts(100))) \div 10

\* HealthStabilityScorer.calculate_score, for one row
calculate_score(isolation_score, lstm_score) ==
    (isolation_weight * clip(isolation_score, 0, Pts(100))
       + lstm_weight * clip(lstm_score, 0, Pts(100))) \div 10

\* faulty variant: the boundary 90 falls into the lower tier
interpret_score_strict(score) ==
    IF score > Pts(90) THEN "Stable"
    ELSE IF score >= Pts(70) THEN "Early Instability"
    ELSE IF score >= Pts(50) THEN "Sustained Deterioration"
    ELSE "High-Risk Decline"

\* HealthStabilityScorer.interpret_score
interpret_score(score) ==
    IF score >= Pts(90) THEN "Stable"
    ELSE IF score >= Pts(70) THEN "Early Instability"
    ELSE IF score >= Pts(50) THEN "Sustained Deterioration"
    ELSE "High-Risk Decline"

-----------------------------------------------------------------------------
(* Readings *)

\* A cell of a DataFrame column, or an Optional[float] of a reading: NaN (None
\* in a reading, which pd.DataFrame reads as NaN), or a number.  Sensor values
\* are whole numbers >= 0; a standard deviation and a range are kept in 1/100,
\* a coefficient of variation in 1/10000.
NaN == [nan |-> TRUE, v |-> 0]
Num(v) == [nan |-> FALSE, v |-> v]

\* A reading dict, as SensorReading.dict() makes it: tsk says whether the
\* 'timestamp' key is present and parses ("ok"), is absent ("missing") or holds
\* a string pd.to_datetime refuses ("bad"); ts is the parsed time in hours; the
\* four channels are cells.
SensorReading(ts, bloodPressure, bloodGlucose, heartRate, activity) ==
    [tsk |-> "ok", ts |-> ts, bloodPressure |-> bloodPressure,
     bloodGlucose |-> bloodGlucose, heartRate |-> heartRate, activity |-> activity]

\* a reading that carries a heart rate only
Reading(tsk, ts, hr) == [SensorReading(ts, NaN, NaN, Num(hr), NaN) EXCEPT !.tsk = tsk]

\* Python None / a list of readings
NoneReadings == [isNone |-> TRUE, list |-> <<>>]
ListOf(rs) == [isNone |-> FALSE, list |-> rs]

SeqsUpTo(S, n) == UNION {[1..k -> S] : k \in 0..n}

-----------------------------------------------------------------------------
(* api/services/prediction_service.py: validate_rolling_window *)

NoMsg == "None"

Reject(msg) == [is_valid |-> FALSE, error_msg |-> msg, raised |-> FALSE]
Accept == [is_valid |-> TRUE, error_msg |-> NoMsg, raised |-> FALSE]
Raise(msg) == [is_valid |-> FALSE, error_msg |-> msg, raised |-> TRUE]

\* Python sorted() on a list of timestamps: insertion of each element after
\* the elements not greater than it (stable)
RECURSIVE insert_sorted(_, _)
insert_sorted(s, x) ==
    IF s = <<>> THEN <<x>>
    ELSE IF x < s[Len(s)] THEN Append(insert_sorted(SubSeq(s, 1, Len(s) - 1), x), s[Len(s)])
    ELSE Append(s, x)

RECURSIVE sorted(_)
sorted(s) ==
    IF s = <<>> THEN <<>>
    ELSE insert_sorted(sorted(SubSeq(s, 1, Len(s) - 1)), s[Len(s)])

\* faulty variant: one reading is enough
too_few_one(readings) == readings.isNone \/ Len(readings.list) < 1

\* line 79: not readings or len(readings) < 2
too_few(readings) == readings.isNone \/ Len(readings.list) < 2

\* faulty variant: equal adjacent timestamps count as out of order
out_of_order_strict(timestamps) ==
    \E i \in 2..Len(timestamps) : timestamps[i] <= timestamps[i - 1]

\* line 85: timestamps != sorted(timestamps)
out_of_order(timestamps) == timestamps # sorted(timestamps)

\* line 89: (timestamps[-1] - timestamps[0]).total_seconds() / 3600
time_span(timestamps) == timestamps[Len(timestamps)] - timestamps[1]

\* faulty variant: a span of exactly min_hours is rejected
span_too_short_incl(span, min_hours) == span <= min_hours

\* line 91: time_span < min_hours
span_too_short(span, min_hours) == span < min_hours

\* faulty variant: no handler, the exception leaves validate_rolling_window
except_handler_absent == Raise("Invalid timestamp format")

\* lines 93-94: except Exception as e: return False, "Invalid timestamp format: ..."
except_handler == Reject("Invalid timestamp format")

validate_rolling_window(readings, min_hours) ==
    IF too_few(readings) THEN Reject("Need at least 2 readings")
    ELSE LET rs == readings.list IN
      \* r['timestamp'] raises KeyError, pd.to_datetime raises on a bad string
      IF \E i \in 1..Len(rs) : rs[i].tsk # "ok" THEN except_handler
      ELSE LET timestamps == [i \in 1..Len(rs) |-> rs[i].ts] IN
        IF out_of_order(timestamps)
        THEN Reject("Readings must be in chronological order")
        ELSE IF span_too_short(time_span(timestamps), min_hours)
        THEN Reject("Need at least min_hours hours of data")
        ELSE IF \E i \in 1..Len(rs) : rs[i].tsk = "missing"
        THEN Reject("Reading missing required field: timestamp")
        ELSE Accept

-----------------------------------------------------------------------------
(* features/temporal_features.py *)

\* A data frame is a record: index (the row labels) and one column, a sequence
\* of cells, for each of the four channels.
Channels == <<"blood_pressure", "blood_glucose", "heart_rate", "activity">>

\* TemporalFeatureEngineer.__init__ default windows=[24, 168, 336, 720]
default_windows == <<24, 168, 336, 720>>

\* the non-NaN values of the rolling window of `window` rows that ends at row i
observations(col, window, i) ==
    SelectSeq([k \in 1..(i - Max(1, i - window + 1) + 1) |-> col[Max(1, i - window + 1) + k - 1]],
              LAMBDA c : ~c.nan)

\* the sum of the numbers vs[lo..hi], by halves
RECURSIVE sum_between(_, _, _)
sum_between(vs, lo, hi) ==
    IF lo > hi THEN 0
    ELSE IF lo = hi THEN vs[lo]
    ELSE sum_between(vs, lo, (lo + hi) \div 2) + sum_between(vs, ((lo + hi) \div 2) + 1, hi)

sum_of(obs) == sum_between([k \in 1..Len(obs) |-> obs[k].v], 1, Len(obs))

sum_of_squares(obs) == sum_between([k \in 1..Len(obs) |-> obs[k].v * obs[k].v], 1, Len(obs))

\* the largest r in lo..hi with r * r <= x
RECURSIVE isqrt_between(_, _, _)
isqrt_between(x, lo, hi) ==
    IF lo = hi THEN lo
    ELSE IF ((lo + hi + 1) \div 2) * ((lo + hi + 1) \div 2) <= x
         THEN isqrt_between(x, (lo + hi + 1) \div 2, hi)
         ELSE isqrt_between(x, lo, ((lo + hi + 1) \div 2) - 1)

isqrt(x) == isqrt_between(x, 0, 46340)

\* the sample standard deviation (ddof = 1) of >= 2 observations, in 1/100
std_of(obs) ==
    isqrt((10000 * (Len(obs) * sum_of_squares(obs) - sum_of(obs) * sum_of(obs)))
            \div (Len(obs) * (Len(obs) - 1)))

\* line 29: data[col].rolling(window, min_periods=1).std(): NaN while the
\* window holds fewer than 2 observations
rolling_std(col, window) ==
    [i \in 1..Len(col) |->
        LET obs == observations(col, window, i)
        IN  IF Len(obs) < 2 THEN NaN ELSE Num(std_of(obs))]

\* lines 30-32: rolling(window, min_periods=1).apply(max - min): NaN while the
\* window holds no observation
rolling_range(col, window) ==
    [i \in 1..Len(col) |->
        LET obs == observations(col, window, i)
            vs == {obs[k].v : k \in 1..Len(obs)}
        IN  IF Len(obs) < 1 THEN NaN
            ELSE Num(100 * ((CHOOSE x \in vs : \A y \in vs : y <= x)
                            - (CHOOSE x \in vs : \A y \in vs : x <= y)))]

\* lines 33-35: std / (rolling mean + 1e-6), NaN where the std is.  Where the
\* std is a positive number the mean of the values (all >= 0) is positive and
\* 1e-6 is below the resolution; a std of 0 gives 0.
rolling_cv(col, window) ==
    [i \in 1..Len(col) |->
        LET obs == observations(col, window, i)
        IN  IF Len(obs) < 2 THEN NaN
            ELSE IF std_of(obs) = 0 THEN Num(0)
            ELSE Num((std_of(obs) * 100 * Len(obs)) \div sum_of(obs))]

\* lines 38-39: x.rolling(168).corr(y): min_periods is the window, so a row
\* with fewer than `window` rows up to it holds NaN
corr_window == 168

sum_of_products(xs, ys) == sum_between([k \in 1..Len(xs) |-> xs[k].v * ys[k].v], 1, Len(xs))

\* n times the sum of squared deviations of xs
spread(xs) == Len(xs) * sum_of_squares(xs) - sum_of(xs) * sum_of(xs)

\* Pearson correlation of a full window, in 1/1000; NaN when a channel is
\* constant over the window (0 / 0)
corr_of(xs, ys) ==
    IF spread(xs) = 0 \/ spread(ys) = 0 THEN NaN
    ELSE Num((1000 * (Len(xs) * sum_of_products(xs, ys) - sum_of(xs) * sum_of(ys)))
                \div (isqrt(spread(xs)) * isqrt(spread(ys))))

rolling_corr(x, y, window) ==
    [i \in 1..Len(x) |->
        IF i < window \/ \E k \in (i - window + 1)..i : x[k].nan \/ y[k].nan
        THEN NaN
        ELSE corr_of(SubSeq(x, i - window + 1, i), SubSeq(y, i - window + 1, i))]

\* the columns of the feature frame: (channel, statistic, window) for lines
\* 23-35, and the two cross-signal features of lines 38-39
feature_columns(windows) ==
    {<<Channels[c], st, windows[w]>> :
        c \in 1..Len(Channels), st \in {"std", "range", "cv"}, w \in 1..Len(windows)}
    \cup {<<"bp_glucose", "corr", corr_window>>, <<"hr_activity", "corr", corr_window>>}

\* lines 29-39: one feature column before the fill
feature_column(data, name) ==
    IF name[2] = "std" THEN rolling_std(data[name[1]], name[3])
    ELSE IF name[2] = "range" THEN rolling_range(data[name[1]], name[3])
    ELSE IF name[2] = "cv" THEN rolling_cv(data[name[1]], name[3])
    ELSE IF name[1] = "bp_glucose"
    THEN rolling_corr(data.blood_pressure, data.blood_glucose, name[3])
    ELSE rolling_corr(data.heart_rate, data.activity, name[3])

\* lines 21-39: the feature columns before the fill
rolling_features(data, windows) ==
    [name \in feature_columns(windows) |-> feature_column(data, name)]

\* DataFrame.ffill on one column: a NaN takes the last number before it
ffill(col) ==
    [i \in 1..Len(col) |->
        IF ~col[i].nan \/ \A k \in 1..(i - 1) : col[k].nan THEN col[i]
        ELSE col[CHOOSE k \in 1..(i - 1) : ~col[k].nan /\ \A j \in (k + 1)..(i - 1) : col[j].nan]]

\* DataFrame.bfill on one column: a NaN takes the first number after it
bfill(col) ==
    [i \in 1..Len(col) |->
        IF ~col[i].nan \/ \A k \in (i + 1)..Len(col) : col[k].nan THEN col[i]
        ELSE col[CHOOSE k \in (i + 1)..Len(col) : ~col[k].nan /\ \A j \in (i + 1)..(k - 1) : col[j].nan]]

\* faulty variant: the NaN that are left stay
fillna_skipped(col) == col

\* DataFrame.fillna(0) on one column
fillna(col) == [i \in 1..Len(col) |-> IF col[i].nan THEN Num(0) ELSE col[i]]

\* TemporalFeatureEngineer(windows).extract_features(data), for a frame that
\* has the four channels: a frame on the index of data, every column filled by
\* line 42, features.ffill().bfill().fillna(0)
extract_features(data, windows) ==
    [index |-> data.index,
     columns |-> [name \in feature_columns(windows) |->
                    fillna(bfill(ffill(feature_column(data, name))))]]

-----------------------------------------------------------------------------
(* models/isolation_forest.py *)

\* What a StandardScaler holds: "none" before any fit, "baseline" for the mean
\* and variance of the healthy-baseline features (fit in training, or unpickled),
\* "request" for those of the features of a request.

\* faulty variant: fit_transform, the scaler is refit on the features it is given
fit_transform(fit) == "request"

\* lines 35 and 226: self.scaler.transform(features) applies the fitted mean and
\* variance and leaves them as they are
transform(fit) == fit

RECURSIVE seq_min(_)
seq_min(s) == IF Len(s) = 1 THEN s[1] ELSE Min(s[1], seq_min(Tail(s)))

RECURSIVE seq_max(_)
seq_max(s) == IF Len(s) = 1 THEN s[1] ELSE Max(s[1], seq_max(Tail(s)))

\* faulty variant: the normalized scores come back in reverse row order
normalize_reversed(scores) ==
    [i \in 1..Len(scores) |->
        ((100000 * (scores[Len(scores) + 1 - i] - seq_min(scores)))
            \div (seq_max(scores) - seq_min(scores) + 1)) * 10]

\* faulty variant: 1e-6 is added above the line as well
normalize_epsilon_both(scores) ==
    [i \in 1..Len(scores) |->
        ((100000 * (scores[i] - seq_min(scores) + 1))
            \div (seq_max(scores) - seq_min(scores) + 1)) * 10]

\* line 39: 100 * (scores - scores.min()) / (scores.max() - scores.min() + 1e-6)
\* on the raw decision values of one call (units of 1e-6); the quotient is kept
\* to 1/1000 point
normalize(scores) ==
    [i \in 1..Len(scores) |->
        ((100000 * (scores[i] - seq_min(scores)))
            \div (seq_max(scores) - seq_min(scores) + 1)) * 10]

-----------------------------------------------------------------------------
(* models/lstm_autoencoder.py *)

\* LSTMAutoencoder.__init__ default
default_sequence_length == 168

\* 100000 * exp(-k/2) for k = 0..25, rounded
exp_table ==
    <<100000, 60653, 36788, 22313, 13534, 8208, 4979, 3020, 1832, 1111, 674,
      409, 248, 150, 91, 55, 34, 20, 12, 7, 5, 3, 2, 1, 1, 0>>

\* 100 * np.exp(-z / 2) in 1/1000 point, for z >= 0 given in thousandths:
\* the table at whole z, linear in between, 0 from z = 25 on
exp_decay(z1000) ==
    LET k == z1000 \div 1000
        f == z1000 % 1000
    IN  IF k >= 25 THEN 0
        ELSE exp_table[k + 1] - ((exp_table[k + 1] - exp_table[k + 2]) * f) \div 1000

\* faulty variant: the distance from the baseline mean in place of max(0, .)
z_score_abs(error, mean, std) ==
    (1000 * (IF error <= mean THEN mean - error ELSE error - mean)) \div (std + 1)

\* lines 251-254: max(0, z_score) with
\* z_score = (error - mean_baseline_error) / (std_baseline_error + 1e-6), in thousandths
z_score(error, mean, std) ==
    IF error <= mean THEN 0 ELSE (1000 * (error - mean)) \div (std + 1)

\* lines 251-255: the stability score of one reconstructed sequence
stability_score(error, mean, std) ==
    clip(10 * exp_decay(z_score(error, mean, std)), 0, Pts(100))

\* A feature matrix with one column is the sequence of its values.
\* StandardScaler.fit: the mean is sum / n and the variance spread / n^2
StandardScaler_fit(X) ==
    [n |-> Len(X), sum |-> sum_between(X, 1, Len(X)),
     spread |-> Len(X) * sum_between([k \in 1..Len(X) |-> X[k] * X[k]], 1, Len(X))
                  - sum_between(X, 1, Len(X)) * sum_between(X, 1, Len(X))]

\* StandardScaler.transform: (x - mean) / std in 1/1000, a std of 0 is taken as 1
StandardScaler_transform(scaler, X) ==
    [i \in 1..Len(X) |->
        IF scaler.spread = 0 THEN (1000 * (scaler.n * X[i] - scaler.sum)) \div scaler.n
        ELSE (1000 * (scaler.n * X[i] - scaler.sum)) \div isqrt(scaler.spread)]

\* faulty variant: range(len(features_scaled) - self.sequence_length)
sequence_starts_short(n, sequence_length) == 0..(n - sequence_length - 1)

\* line 134: range(len(features_scaled) - self.sequence_length + 1)
sequence_starts(n, sequence_length) == 0..(n - sequence_length)

\* LSTMAutoencoder.prepare_sequences(features), lines 121-137: the scaler is
\* fit on the matrix (fit_transform raises ValueError on no rows), sequence i
\* is features_scaled[i:i+sequence_length]
prepare_sequences(features, sequence_length) ==
    IF Len(features) = 0
    THEN [raised |-> "ValueError", scaler |-> StandardScaler_fit(<<>>), sequences |-> <<>>]
    ELSE LET scaler == StandardScaler_fit(features)
             features_scaled == StandardScaler_transform(scaler, features)
         IN  [raised |-> "no", scaler |-> scaler,
              sequences |->
                [k \in 1..Cardinality(sequence_starts(Len(features), sequence_length)) |->
                    SubSeq(features_scaled, k, k + sequence_length - 1)]]

\* predict_anomaly_score lines 226-239: the sequence of every row, none
\* (<<>>) for a row that has too little history
inference_sequences(scaler, features, sequence_length) ==
    LET features_scaled == StandardScaler_transform(scaler, features)
    IN  [k \in 1..Len(features) |->
            IF k - 1 < sequence_length - 1 THEN <<>>
            ELSE SubSeq(features_scaled, (k - 1) - sequence_length + 1 + 1, (k - 1) + 1)]

\* faulty variant: off by one, the row with index sequence_length - 1 is not scored
insufficient_history_off(i, sequence_length) == i < sequence_length

\* line 232: i < self.sequence_length - 1, for the 0-based row index i
insufficient_history(i, sequence_length) == i < sequence_length - 1

\* LSTMAutoencoder.predict_anomaly_score on a feature matrix of n rows; err[k]
\* is the mean squared error of the network's reconstruction of the sequence
\* that ends at row k (1-based), read only where the network is invoked.
\* network_rows are the 0-based row indices whose sequence went to model.predict.
lstm_predict_anomaly_score(s, n, err) ==
    LET scored == {i \in 0..(n - 1) : ~insufficient_history(i, s.sequence_length)}
    IN  IF ~s.lstm_scaler THEN [raised |-> "ValueError"]          \* NotFittedError
        ELSE IF scored # {} /\ ~(s.lstm_model /\ s.has_stats)
        THEN [raised |-> "AttributeError"]   \* None.predict / no mean_baseline_error
        ELSE [raised |-> "no",
              scores |-> [k \in 1..n |->
                  IF (k - 1) \in scored
                  THEN stability_score(err[k], s.mean_baseline_error, s.std_baseline_error)
                  ELSE Pts(100)],
              reconstruction_errors |-> [k \in 1..n |->
                  IF (k - 1) \in scored THEN err[k] ELSE 0],
              network_rows |-> scored]

-----------------------------------------------------------------------------
(* system/sdd_system.py *)

\* prediction_service._sdd_system = None
NoSystem ==
    [created |-> FALSE, iso_model |-> FALSE, iso_scaler |-> FALSE,
     lstm_model |-> FALSE, lstm_scaler |-> FALSE, has_stats |-> FALSE,
     iso_scaler_fit |-> "none", lstm_scaler_fit |-> "none", input_dim |-> 0,
     mean_baseline_error |-> 0, std_baseline_error |-> 0,
     sequence_length |-> 0, reconstruction_errors |-> <<>>]

\* SDDSystem(): unfitted forest and scalers, no network, no baseline statistics
NewSystem ==
    [NoSystem EXCEPT !.created = TRUE, !.sequence_length = default_sequence_length]

\* all five artifacts of load_trained_models are installed on s
AllInstalled(s) ==
    s.iso_model /\ s.iso_scaler /\ s.lstm_model /\ s.lstm_scaler /\ s.has_stats

\* none of them is
NoneInstalled(s) ==
    ~s.iso_model /\ ~s.iso_scaler /\ ~s.lstm_model /\ ~s.lstm_scaler /\ ~s.has_stats

NoResults ==
    [isolation_scores |-> <<>>, lstm_scores |-> <<>>, health_stability_score |-> <<>>,
     reconstruction_errors |-> <<>>, network_rows |-> {}]

\* lines 83-94: the calls SDDSystem.predict makes, in order
predict_steps ==
    <<"extract_features", "isolation_detector.predict_anomaly_score",
      "lstm_detector.predict_anomaly_score", "calculate_score">>

\* SDDSystem.predict on a frame of n rows: raw[k] is the forest's decision value
\* for feature row k, err as in lstm_predict_anomaly_score.  The result names
\* the exception raised ("no" for none), the returned dict and the system after
\* the call (LSTMAutoencoder keeps the last reconstruction errors on itself).
SDDSystem_predict(s, n, raw, err) ==
    LET fail(e, k) == [raised |-> e, results |-> NoResults, system |-> s,
                       steps |-> SubSeq(predict_steps, 1, k)]
        lstm == lstm_predict_anomaly_score(s, n, err)
        iso == normalize(raw)
    IN  IF n = 0 \/ ~s.iso_scaler THEN fail("ValueError", 2)  \* StandardScaler.transform
        ELSE IF ~s.iso_model THEN fail("ValueError", 2)       \* NotFittedError
        ELSE IF lstm.raised # "no" THEN fail(lstm.raised, 3)
        ELSE [raised |-> "no",
              results |->
                [isolation_scores |-> iso,
                 lstm_scores |-> lstm.scores,
                 health_stability_score |->
                    [k \in 1..n |-> calculate_score(iso[k], lstm.scores[k])],
                 reconstruction_errors |-> lstm.reconstruction_errors,
                 network_rows |-> lstm.network_rows],
              system |-> [s EXCEPT !.iso_scaler_fit = transform(@),
                                   !.lstm_scaler_fit = transform(@),
                                   !.reconstruction_errors = lstm.reconstruction_errors],
              steps |-> predict_steps]

\* IsolationForestDetector.predict_anomaly_score on the detector of system s,
\* raw being the decision values of the forest for the rows of the batch:
\* scaler.transform and decision_function raise NotFittedError (a ValueError)
\* on an unfitted scaler or forest, transform raises ValueError on no rows
isolation_predict_anomaly_score(s, raw) ==
    IF Len(raw) = 0 \/ ~s.iso_scaler \/ ~s.iso_model
    THEN [raised |-> "ValueError", scores |-> <<>>]
    ELSE [raised |-> "no", scores |-> normalize(raw)]

-----------------------------------------------------------------------------
(* system/sdd_system.py: train *)

\* features.shape[1] of the matrix extract_features returns with the default windows
feature_count == Cardinality(feature_columns(default_windows))

\* A feature matrix as the fits see it: where its rows come from ("baseline"
\* for the healthy data of training), how many rows and how many columns.
\* line 51: features = self.feature_engineer.extract_features(healthy_data)
train_features(data) ==
    [source |-> data.source, rows |-> data.rows, columns |-> feature_count]

\* IsolationForestDetector.fit(features), lines 25-28: fit_transform fits the
\* scaler on the matrix, then the forest is fit (random_state = 42: the forest
\* is a function of the matrix); no rows make fit_transform raise
isolation_fit(s, features) ==
    IF features.rows = 0 THEN [raised |-> "ValueError", system |-> s]
    ELSE [raised |-> "no",
          system |-> [s EXCEPT !.iso_scaler = TRUE, !.iso_scaler_fit = features.source,
                               !.iso_model = TRUE]]

\* LSTMAutoencoder.fit(features), lines 139-213.  prepare_sequences fits the
\* scaler on the matrix and builds rows - sequence_length + 1 sequences; with
\* none, sequences.shape[2] raises IndexError (line 158) after the scaler was
\* fit.  Else the network is built for features.shape[1] unless there is one,
\* trained, and the baseline statistics are set from its errors on the
\* sequences: baseline is what the training arrived at.
lstm_fit(s, features, baseline) ==
    IF features.rows = 0 THEN [raised |-> "ValueError", system |-> s]
    ELSE IF features.rows - s.sequence_length + 1 <= 0
    THEN [raised |-> "IndexError",
          system |-> [s EXCEPT !.lstm_scaler = TRUE, !.lstm_scaler_fit = features.source]]
    ELSE [raised |-> "no",
          system |-> [s EXCEPT !.lstm_scaler = TRUE, !.lstm_scaler_fit = features.source,
                               !.lstm_model = TRUE,
                               !.input_dim = IF s.lstm_model THEN @ ELSE features.columns,
                               !.has_stats = TRUE,
                               !.mean_baseline_error = baseline.mean_baseline_error,
                               !.std_baseline_error = baseline.std_baseline_error]]

\* faulty variant: the long-horizon detector is fit on the features plus the
\* scores of the short-horizon detector, once that one is fit
lstm_fit_input_scored(s, features) ==
    IF s.iso_model THEN [features EXCEPT !.columns = @ + 1] ELSE features

\* lines 61-62: self.lstm_detector.fit(features, ...), the matrix of line 51
lstm_fit_input(s, features) == features

\* SDDSystem.train(healthy_data), lines 35-70: the steps it took, what each fit
\* was given, the exception that ended it ("no" for none) and the system after
SDDSystem_train(s, data, baseline) ==
    LET features == train_features(data)
        iso == isolation_fit(s, features)
        lstm == lstm_fit(iso.system, lstm_fit_input(iso.system, features), baseline)
    IN  IF iso.raised # "no"
        THEN [raised |-> iso.raised, system |-> iso.system,
              steps |-> <<"extract_features", "isolation_detector.fit">>,
              iso_input |-> features, lstm_input |-> features]
        ELSE [raised |-> lstm.raised, system |-> lstm.system,
              steps |-> <<"extract_features", "isolation_detector.fit",
                          "lstm_detector.fit">>,
              iso_input |-> features,
              lstm_input |-> lstm_fit_input(iso.system, features)]

-----------------------------------------------------------------------------
(* api/services/prediction_service.py: loading *)

\* A fault of load_trained_models: the load that raises (1 forest, 2 forest
\* scaler, 3 network, 4 network scaler, 5 stats.pkl; 0 for none) and the
\* exception class as main.predict tells them apart (pickle and keras raise
\* ValueError for some files, OSError and others else)
NoFault == [at |-> 0, exc |-> "no"]
LoadFaults ==
    {NoFault} \cup {[at |-> k, exc |-> e] : k \in 1..5, e \in {"ValueError", "Exception"}}

SequenceLengths == {2, 3}

\* what stats.pkl may hold
BaselineStats ==
    {[mean_baseline_error |-> 10, std_baseline_error |-> sd, sequence_length |-> l] :
        sd \in {0, 4}, l \in SequenceLengths}

\* what stats.pkl holds where the service runs
ServingStats == {st \in BaselineStats : st.std_baseline_error = 4 /\ st.sequence_length = 3}

\* load_trained_models(sdd): the assignments up to the load that raises
load_trained_models(s, fault, stats) ==
    LET upto(k) == fault.at = 0 \/ fault.at > k
        loaded == [s EXCEPT !.iso_model = upto(1), !.iso_scaler = upto(2),
                            !.lstm_model = upto(3), !.lstm_scaler = upto(4),
                            !.has_stats = upto(5),
                            !.iso_scaler_fit = IF upto(2) THEN "baseline" ELSE @,
                            !.lstm_scaler_fit = IF upto(4) THEN "baseline" ELSE @,
                            !.input_dim = IF upto(3) THEN feature_count ELSE @]
    IN  [raised |-> fault.exc,
         system |-> IF upto(5)
                    THEN [loaded EXCEPT
                            !.mean_baseline_error = stats.mean_baseline_error,
                            !.std_baseline_error = stats.std_baseline_error,
                            !.sequence_length = stats.sequence_length]
                    ELSE loaded]

\* initialize_models(): creates and loads the global system only when it is None
initialize_models(s, fault, stats) ==
    IF ~s.created THEN load_trained_models(NewSystem, fault, stats)
    ELSE [raised |-> "no", system |-> s]

-----------------------------------------------------------------------------
(* api/services/prediction_service.py: convert_to_dataframe *)

row_orders(n) == {p \in [1..n -> 1..n] : \A i, j \in 1..n : i # j => p[i] # p[j]}

\* line 130: df.sort_values('timestamp').reset_index(drop=True).  sort_values
\* sorts with kind='quicksort', which is not stable: the rows come out in
\* non-decreasing timestamp order, rows of equal timestamp in any order.
sort_values(rows) ==
    {[i \in 1..Len(rows) |-> rows[p[i]]] : p \in
        {q \in row_orders(Len(rows)) :
            \A i \in 1..(Len(rows) - 1) : rows[q[i]].ts <= rows[q[i + 1]].ts}}

\* lines 116-127: pd.DataFrame(readings), the three renamed columns and the
\* parsed timestamp; a frame is the sequence of its rows
rename(readings) ==
    [i \in 1..Len(readings) |->
        [ts |-> readings[i].ts,
         blood_pressure |-> readings[i].bloodPressure,
         blood_glucose |-> readings[i].bloodGlucose,
         heart_rate |-> readings[i].heartRate,
         activity |-> readings[i].activity]]

\* one column of a frame of rows
column(df, col) == [i \in 1..Len(df) |-> df[i][col]]

\* faulty variant: the backward fill is left out
fill_channel_forward(col) == fillna(ffill(col))

\* line 142, on one channel: .ffill().bfill().fillna(0)
fill_channel(col) == fillna(bfill(ffill(col)))

\* lines 140-142: the four sensor channels are replaced by their filled columns
fill_channels(df) ==
    LET blood_pressure == fill_channel(column(df, "blood_pressure"))
        blood_glucose == fill_channel(column(df, "blood_glucose"))
        heart_rate == fill_channel(column(df, "heart_rate"))
        activity == fill_channel(column(df, "activity"))
    IN  [i \in 1..Len(df) |->
            [ts |-> df[i].ts, blood_pressure |-> blood_pressure[i],
             blood_glucose |-> blood_glucose[i], heart_rate |-> heart_rate[i],
             activity |-> activity[i]]]

\* convert_to_dataframe(readings): the frames it may return
convert_to_dataframe(rs) == {fill_channels(df) : df \in sort_values(rename(rs))}

-----------------------------------------------------------------------------
(* api/services/prediction_service.py: predict_anomaly_score *)

\* line 164: validate_rolling_window(readings, min_hours=168)
serving_min_hours == 168

NoOutcome == [kind |-> "none", origin |-> "none", reason |-> NoMsg]
NoValid == [is_valid |-> FALSE, error_msg |-> NoMsg, raised |-> FALSE]
NoNumber == [isNone |-> TRUE, value |-> 0]
NoResponse ==
    [healthStabilityScore |-> 0, isolationScore |-> 0, lstmScore |-> 0,
     reconstructionError |-> NoNumber, riskCategory |-> NoMsg, timestamp |-> 0]

\* faulty variant: the first row is taken
last_idx_first(results) == 1

\* line 175: last_idx = len(results['health_stability_score']) - 1, here as
\* the 1-based position of that row
last_idx(results) == Len(results.health_stability_score)

\* lines 174-190: the response for the last row of the results
last_prediction(results, data) ==
    LET e == results.reconstruction_errors[last_idx(results)]
    IN  [healthStabilityScore |-> results.health_stability_score[last_idx(results)],
         isolationScore |-> results.isolation_scores[last_idx(results)],
         lstmScore |-> results.lstm_scores[last_idx(results)],
         reconstructionError |-> IF e > 0 THEN [isNone |-> FALSE, value |-> e] ELSE NoNumber,
         riskCategory |-> interpret_score(results.health_stability_score[last_idx(results)]),
         timestamp |-> data[last_idx(results)].ts]

\* predict_anomaly_score(readings) with the global system s.  fault and stats
\* are what a lazy load meets, data the frame convert_to_dataframe returns, raw
\* and err the values the forest and the network produce.  The result holds the
\* global system after the call, how the call ended (outcome.kind "return", or
\* the class of the exception raised), and what it did on the way.
predict_anomaly_score(s, readings, fault, stats, data, raw, err) ==
    LET init == initialize_models(s, fault, stats)
        valid == validate_rolling_window(readings, serving_min_hours)
        pred == SDDSystem_predict(init.system, Len(data), raw, err)
        base == [system |-> init.system, outcome |-> NoOutcome, valid |-> NoValid,
                 data |-> <<>>, predict_calls |-> 0, results |-> NoResults,
                 response |-> NoResponse]
    IN  IF init.raised # "no"
        THEN [base EXCEPT !.outcome =
                [kind |-> init.raised, origin |-> "load", reason |-> NoMsg]]
        ELSE IF valid.raised
        THEN [base EXCEPT !.valid = valid, !.outcome =
                [kind |-> "Exception", origin |-> "validate", reason |-> valid.error_msg]]
        ELSE IF ~valid.is_valid
        THEN [base EXCEPT !.valid = valid, !.outcome =
                [kind |-> "ValueError", origin |-> "validate", reason |-> valid.error_msg]]
        ELSE IF pred.raised # "no"
        THEN [base EXCEPT !.valid = valid, !.data = data, !.predict_calls = 1,
                !.system = pred.system, !.outcome =
                [kind |-> IF pred.raised = "ValueError" THEN "ValueError" ELSE "Exception",
                 origin |-> "predict", reason |-> NoMsg]]
        ELSE [base EXCEPT !.valid = valid, !.data = data, !.predict_calls = 1,
                !.system = pred.system, !.results = pred.results,
                !.response = last_prediction(pred.results, data),
                !.outcome = [kind |-> "return", origin |-> "none", reason |-> NoMsg]]

-----------------------------------------------------------------------------
(* api/main.py *)

\* predict(request): lines 66-80, the answer for each way predict_anomaly_score ends
http_outcome(outcome) ==
    IF outcome.kind = "return" THEN [outcome EXCEPT !.kind = "HTTP200"]
    ELSE IF outcome.kind = "ValueError" THEN [outcome EXCEPT !.kind = "HTTP400"]
    ELSE [outcome EXCEPT !.kind = "HTTP500"]

\* health_check(): lines 42-49, the body of the answer
health_response(loaded) ==
    [status |-> IF loaded THEN "healthy" ELSE "unhealthy",
     models_loaded |-> loaded, service |-> "AlertCare ML API"]

NoHealth == [status |-> NoMsg, models_loaded |-> FALSE, service |-> NoMsg]

-----------------------------------------------------------------------------
(* Inputs *)

Timestamps == {0, 100, 168, 200}
ServingTimestamps == {0, 168}
HeartRates == {60, 90}
MinHours == {0, 100, 168}

\* decision values of the forest (-0.005, 0, 0.005) and reconstruction errors of the network
RawScores == {0 - 5000, 0, 5000}
Errors == {0, 14, 30}
ServingRawScores == {0, 5000}
ServingErrors == {0, 30}

ScoreInputs ==
    {Pts(0 - 10), 0, Pts(50) - 10, Pts(50), Pts(70) - 10, Pts(70), Pts(90) - 10, Pts(90),
     Pts(100), Pts(110)}
InterpretInputs ==
    {Pts(0 - 1), 0, Pts(50) - 1, Pts(50), Pts(70) - 1, Pts(70), Pts(90) - 1, Pts(90),
     Pts(100), Pts(101)}

ValidatorReadings ==
    {Reading("ok", t, 60) : t \in Timestamps}
        \cup {Reading("missing", 0, 60), Reading("bad", 0, 60)}
EndpointReadings ==
    {Reading("ok", t, h) : t \in ServingTimestamps, h \in HeartRates}
        \cup {Reading("bad", 0, 60)}
ServiceReadings == EndpointReadings \cup {Reading("missing", 0, 60)}

\* frames for the feature engineer: blood pressure varies and may be missing,
\* heart rate is steady or alternates, glucose is steady, activity was never measured; the index is a
\* RangeIndex or the labels of a slice that starts at row 5
FeatureValues == {NaN, Num(60), Num(90)}
HeartRateColumns(n) ==
    {[k \in 1..n |-> Num(60)], [k \in 1..n |-> IF k % 2 = 1 THEN Num(60) ELSE Num(90)]}
FeatureFrames ==
    UNION {{[index |-> [k \in 1..n |-> first + k - 1],
             blood_pressure |-> bp, heart_rate |-> hr,
             blood_glucose |-> [k \in 1..n |-> Num(100)],
             activity |-> [k \in 1..n |-> NaN]] :
                bp \in [1..n -> FeatureValues], hr \in HeartRateColumns(n),
                first \in {0, 5}} : n \in 1..MaxLen}
FeatureWindows == {default_windows, <<2>>}

\* frames of about a week of hourly rows, for the cross-signal features: a
\* channel is steady, alternates, repeats with period 3, or is 0 for the first
\* 168 rows and 1 from then on
WeekRows == {corr_window - 1, corr_window, corr_window + 2}
steady(n) == [k \in 1..n |-> Num(1)]
alternating(n) == [k \in 1..n |-> Num(k % 2)]
period3(n) == [k \in 1..n |-> Num(k % 3)]
late(n) == [k \in 1..n |-> Num(IF k <= corr_window THEN 0 ELSE 1)]
WeekFrames ==
    UNION {{[index |-> [k \in 1..n |-> k - 1],
             blood_pressure |-> bp, blood_glucose |-> bg,
             heart_rate |-> hr, activity |-> act] :
                bp \in {alternating(n), late(n)}, bg \in {period3(n)},
                hr \in {alternating(n)},
                act \in {steady(n), late(n), period3(n)}} : n \in WeekRows}

\* the engineers and frames of extract_features: short frames with the default
\* windows and with windows=[2], week-long frames with windows=[2]
FeatureInputs ==
    {<<data, windows>> : data \in FeatureFrames, windows \in FeatureWindows}
        \cup {<<data, <<2>>>> : data \in WeekFrames}

\* feature matrices of one column for the sequence assembly, up to one row
\* beyond MaxLen
FeatureMatrices == SeqsUpTo({1, 2, 4}, MaxLen + 1)

\* readings for convert_to_dataframe: blood pressure and heart rate may be
\* missing, glucose is never reported (None in every reading, or the key absent
\* from every reading: lines 134-136), activity always is
ConvertReadings ==
    {SensorReading(t, bp, NaN, hr, Num(0)) :
        t \in {0, 1}, bp \in {NaN, Num(120)}, hr \in {NaN, Num(60), Num(90)}}

\* decision values for the forest on its own: far apart, and as close as 1e-6
ForestRawScores == {0 - 5000, 0, 1, 99, 5000}

\* healthy data for training, by its number of rows, and the baseline
\* statistics a training may arrive at
TrainingData == {[source |-> "baseline", rows |-> n] : n \in {0, MaxLen, 167, 168, 720}}
TrainingBaselines ==
    {[mean_baseline_error |-> 10, std_baseline_error |-> sd] : sd \in {0, 4}}

\* the errors the network may return for a frame of n rows: a choice for every
\* row that has sequence_length - 1 rows before it
ErrorChoices(E, n, sequence_length) ==
    {[k \in 1..n |-> IF k >= sequence_length THEN f[k] ELSE 0] :
        f \in [{k \in 1..n : k >= sequence_length} -> E]}

-----------------------------------------------------------------------------
(* The operations *)

Idle ==
    [op |-> "idle", readings |-> NoneReadings, min_hours |-> 0, valid |-> NoValid,
     a |-> 0, b |-> 0, score |-> 0, category |-> NoMsg,
     data |-> <<>>, predict_calls |-> 0, raw |-> <<>>, err |-> <<>>,
     results |-> NoResults, response |-> NoResponse, outcome |-> NoOutcome,
     before |-> NoSystem,
     frame |-> <<>>, windows |-> <<>>, unfilled |-> <<>>, features |-> <<>>,
     steps |-> <<>>, training |-> <<>>, sequences |-> <<>>, health |-> NoHealth]

\* the threads that call SDDSystem.predict on the one global system
Threads == {1, 2}

\* a thread outside SDDSystem.predict
NoThread ==
    [pc |-> "idle", n |-> 0, raw |-> <<>>, err |-> <<>>,
     locals |-> NoResults, results |-> NoResults]

Init ==
    /\ sdd = NoSystem
    /\ models_loaded = FALSE
    /\ started = FALSE
    /\ call = Idle
    /\ threads = [t \in Threads |-> NoThread]

\* the caller takes the result
Return ==
    /\ call.op # "idle"
    /\ call' = Idle
    /\ UNCHANGED <<sdd, models_loaded, started, threads>>

\* scorer.calculate_score(a, b) on one pair of scores
CalculateScore ==
    /\ call.op = "idle"
    /\ \E a \in ScoreInputs, b \in ScoreInputs :
         call' = [Idle EXCEPT !.op = "calculate_score", !.a = a, !.b = b,
                              !.score = calculate_score(a, b)]
    /\ UNCHANGED <<sdd, models_loaded, started, threads>>

\* scorer.interpret_score(score)
InterpretScore ==
    /\ call.op = "idle"
    /\ \E x \in InterpretInputs :
         call' = [Idle EXCEPT !.op = "interpret_score", !.score = x,
                              !.category = interpret_score(x)]
    /\ UNCHANGED <<sdd, models_loaded, started, threads>>

\* validate_rolling_window(readings, min_hours)
ValidateRollingWindow ==
    /\ call.op = "idle"
    /\ \E readings \in {NoneReadings}
                \cup {ListOf(rs) : rs \in SeqsUpTo(ValidatorReadings, MaxLen)},
          min_hours \in MinHours :
         call' = [Idle EXCEPT !.op = "validate_rolling_window", !.readings = readings,
                              !.min_hours = min_hours,
                              !.valid = validate_rolling_window(readings, min_hours)]
    /\ UNCHANGED <<sdd, models_loaded, started, threads>>

\* TemporalFeatureEngineer(windows).extract_features(data)
ExtractFeatures ==
    /\ call.op = "idle"
    /\ \E input \in FeatureInputs :
         call' = [Idle EXCEPT !.op = "extract_features", !.frame = input[1],
                              !.windows = input[2],
                              !.unfilled = rolling_features(input[1], input[2]),
                              !.features = extract_features(input[1], input[2])]
    /\ UNCHANGED <<sdd, models_loaded, started, threads>>

\* convert_to_dataframe(readings) on readings whose timestamps parse; unfilled
\* keeps the sorted frame of line 130
ConvertToDataframe ==
    /\ call.op = "idle"
    /\ \E rs \in SeqsUpTo(ConvertReadings, MaxLen) \ {<<>>} :
       \E df \in sort_values(rename(rs)) :
         call' = [Idle EXCEPT !.op = "convert_to_dataframe", !.readings = ListOf(rs),
                              !.unfilled = df, !.data = fill_channels(df)]
    /\ UNCHANGED <<sdd, models_loaded, started, threads>>

\* LSTMAutoencoder(sequence_length).prepare_sequences(features)
PrepareSequences ==
    /\ call.op = "idle"
    /\ \E features \in FeatureMatrices, L \in SequenceLengths :
       \E r \in {prepare_sequences(features, L)} :
         call' = [Idle EXCEPT !.op = "prepare_sequences", !.features = features,
                              !.training = [sequence_length |-> L, scaler |-> r.scaler,
                                            raised |-> r.raised],
                              !.sequences = r.sequences]
    /\ UNCHANGED <<sdd, models_loaded, started, threads>>

\* the sequences LSTMAutoencoder.predict_anomaly_score(features) assembles in a
\* detector whose scaler was fit by prepare_sequences(training): on the
\* training matrix itself, or on the matrix of a request
InferenceSequences ==
    /\ call.op = "idle"
    /\ \E training \in FeatureMatrices \ {<<>>}, L \in SequenceLengths :
       \E features \in {training, <<4, 1, 2, 2>>, <<2>>} :
         call' = [Idle EXCEPT !.op = "inference_sequences", !.features = features,
                              !.training = [sequence_length |-> L,
                                            scaler |-> prepare_sequences(training, L).scaler,
                                            features |-> training],
                              !.sequences =
                                 inference_sequences(prepare_sequences(training, L).scaler,
                                                     features, L)]
    /\ UNCHANGED <<sdd, models_loaded, started, threads>>

\* a frame of n hourly rows
HourlyFrame(n) ==
    [k \in 1..n |-> [ts |-> k - 1, blood_pressure |-> Num(120), blood_glucose |-> Num(100),
                     heart_rate |-> Num(60), activity |-> Num(0)]]

\* initialize_models() called on its own
InitializeModels ==
    /\ call.op = "idle"
    /\ \E fault \in (IF sdd.created THEN {NoFault} ELSE LoadFaults),
          stats \in BaselineStats :
         LET r == initialize_models(sdd, fault, stats) IN
         /\ sdd' = r.system
         /\ call' = [Idle EXCEPT !.op = "initialize_models", !.before = sdd,
                       !.outcome = [kind |-> IF r.raised = "no" THEN "return" ELSE r.raised,
                                    origin |-> IF r.raised = "no" THEN "none" ELSE "load",
                                    reason |-> NoMsg]]
    /\ UNCHANGED <<models_loaded, started, threads>>

\* isolation_detector.predict_anomaly_score(features) on the system that exists
IsolationPredict ==
    /\ call.op = "idle"
    /\ sdd.created
    /\ \E raw \in SeqsUpTo(ForestRawScores, MaxLen) :
       \E r \in {isolation_predict_anomaly_score(sdd, raw)} :
         call' = [Idle EXCEPT !.op = "isolation_predict", !.before = sdd, !.raw = raw,
                       !.results = [NoResults EXCEPT !.isolation_scores = r.scores],
                       !.outcome = [kind |-> IF r.raised = "no" THEN "return" ELSE r.raised,
                                    origin |-> IF r.raised = "no" THEN "none" ELSE "predict",
                                    reason |-> NoMsg]]
    /\ UNCHANGED <<sdd, models_loaded, started, threads>>

\* SDDSystem.train(healthy_data), on the system that exists or on a new SDDSystem()
Train ==
    /\ call.op = "idle"
    /\ \E data \in TrainingData, baseline \in TrainingBaselines :
       \E s \in {IF sdd.created THEN sdd ELSE NewSystem} :
       \E r \in {SDDSystem_train(s, data, baseline)} :
         /\ sdd' = r.system
         /\ call' = [Idle EXCEPT !.op = "train", !.before = s, !.steps = r.steps,
                       !.training = [data |-> data, baseline |-> baseline,
                                     iso_input |-> r.iso_input,
                                     lstm_input |-> r.lstm_input],
                       !.outcome = [kind |-> IF r.raised = "no" THEN "return" ELSE r.raised,
                                    origin |-> IF r.raised = "no" THEN "none" ELSE "train",
                                    reason |-> NoMsg]]
    /\ UNCHANGED <<models_loaded, started, threads>>

\* SDDSystem.predict(data) on the system that exists
Predict ==
    /\ call.op = "idle"
    /\ sdd.created
    /\ \E n \in 0..MaxLen :
       \E raw \in [1..n -> RawScores], err \in ErrorChoices(Errors, n, sdd.sequence_length) :
       \E r \in {SDDSystem_predict(sdd, n, raw, err)} :
         /\ sdd' = r.system
         /\ call' = [Idle EXCEPT !.op = "predict", !.before = sdd, !.steps = r.steps,
                       !.data = HourlyFrame(n), !.predict_calls = 1,
                       !.raw = raw, !.err = err, !.results = r.results,
                       !.outcome = [kind |-> IF r.raised = "no" THEN "return" ELSE r.raised,
                                    origin |-> IF r.raised = "no" THEN "none" ELSE "predict",
                                    reason |-> NoMsg]]
    /\ UNCHANGED <<models_loaded, started, threads>>

\* main.startup_event(): lines 29-39
startup_event ==
    /\ call.op = "idle"
    /\ ~started
    /\ \E fault \in (IF sdd.created THEN {NoFault} ELSE LoadFaults),
          stats \in ServingStats :
         LET r == initialize_models(sdd, fault, stats) IN
         /\ sdd' = r.system
         /\ models_loaded' = (r.raised = "no")
         /\ call' = [Idle EXCEPT !.op = "startup_event", !.before = sdd,
                       !.outcome = [kind |-> "return",
                                    origin |-> IF r.raised = "no" THEN "none" ELSE "load",
                                    reason |-> NoMsg]]
    /\ started' = TRUE
    /\ UNCHANGED threads

\* main.health_check(): GET /api/ml/health, served once the application started
health_check ==
    /\ call.op = "idle"
    /\ started
    /\ call' = [Idle EXCEPT !.op = "GET /api/ml/health", !.before = sdd,
                  !.health = health_response(models_loaded),
                  !.outcome = [kind |-> "HTTP200", origin |-> "none", reason |-> NoMsg]]
    /\ UNCHANGED <<sdd, models_loaded, started, threads>>

\* One run of predict_anomaly_score(readings), called as op: every way it can go
Serve(op, readings) ==
    \E fault \in (IF sdd.created THEN {NoFault} ELSE LoadFaults),
       stats \in ServingStats :
    LET sys == initialize_models(sdd, fault, stats).system
        ok == fault.at = 0 /\ validate_rolling_window(readings, serving_min_hours).is_valid
    IN
    \E data \in (IF ok THEN convert_to_dataframe(readings.list) ELSE {<<>>}) :
    \E raw \in [1..Len(data) -> ServingRawScores],
       err \in ErrorChoices(ServingErrors, Len(data), sys.sequence_length) :
       \E r \in {predict_anomaly_score(sdd, readings, fault, stats, data, raw, err)} :
         /\ sdd' = r.system
         /\ call' = [Idle EXCEPT !.op = op, !.before = sdd, !.readings = readings,
                       !.min_hours = serving_min_hours, !.valid = r.valid,
                       !.data = r.data, !.predict_calls = r.predict_calls,
                       !.raw = raw, !.err = err, !.results = r.results,
                       !.response = r.response,
                       !.outcome = IF op = "POST /api/ml/predict"
                                   THEN http_outcome(r.outcome) ELSE r.outcome]

\* predict_anomaly_score(readings) called by a user of the service module
PredictAnomalyScore ==
    /\ call.op = "idle"
    /\ \E readings \in {NoneReadings}
                \cup {ListOf(rs) : rs \in SeqsUpTo(ServiceReadings, MaxLen)} :
         Serve("predict_anomaly_score", readings)
    /\ UNCHANGED <<models_loaded, started, threads>>

\* main.predict(request): POST /api/ml/predict, served once the application started
PredictEndpoint ==
    /\ call.op = "idle"
    /\ started
    /\ \E rs \in SeqsUpTo(EndpointReadings, MaxLen) :
         Serve("POST /api/ml/predict", ListOf(rs))
    /\ UNCHANGED <<models_loaded, started, threads>>

\* the forest's decision values for the frames of the parallel calls
ParallelRaws(n) ==
    {[k \in 1..n |-> 0], [k \in 1..n |-> IF k % 2 = 1 THEN 5000 ELSE 0]}

\* thread t enters SDDSystem.predict(data) on the loaded global system
ThreadCall(t) ==
    /\ threads[t].pc = "idle"
    /\ AllInstalled(sdd)
    /\ \E n \in 1..MaxLen :
       \E raw \in ParallelRaws(n),
          err \in ErrorChoices(ServingErrors, n, sdd.sequence_length) :
         threads' = [threads EXCEPT ![t] =
                        [NoThread EXCEPT !.pc = "called", !.n = n, !.raw = raw, !.err = err]]
    /\ UNCHANGED <<sdd, models_loaded, started, call>>

\* thread t runs lines 83-94: features, both detectors, fusion.  The scores are
\* local variables of the call; LSTMAutoencoder.predict_anomaly_score assigns
\* self.reconstruction_errors on the shared detector (line 259).
ThreadScore(t) ==
    /\ threads[t].pc = "called"
    /\ \E r \in {SDDSystem_predict(sdd, threads[t].n, threads[t].raw, threads[t].err)} :
         /\ sdd' = r.system
         /\ threads' = [threads EXCEPT ![t].pc = "scored", ![t].locals = r.results]
    /\ UNCHANGED <<models_loaded, started, call>>

\* thread t runs lines 96-102: the returned dict takes the scores from the
\* locals and reconstruction_errors from self.lstm_detector.reconstruction_errors
ThreadReturn(t) ==
    /\ threads[t].pc = "scored"
    /\ threads' = [threads EXCEPT ![t].pc = "returned",
                     ![t].results = [threads[t].locals EXCEPT
                         !.reconstruction_errors = sdd.reconstruction_errors]]
    /\ UNCHANGED <<sdd, models_loaded, started, call>>

-----------------------------------------------------------------------------
(* Specifications *)

\* the service: startup, then requests at the endpoint and calls of the service function
Next == startup_event \/ health_check \/ PredictEndpoint \/ PredictAnomalyScore \/ Return
Spec == Init /\ [][Next]_vars

\* the scorer on its own
NextScorer == CalculateScore \/ InterpretScore \/ Return
SpecScorer == Init /\ [][NextScorer]_vars

\* the validator on its own
NextValidator == ValidateRollingWindow \/ Return
SpecValidator == Init /\ [][NextValidator]_vars

\* the detection system: loading and training, SDDSystem.predict on frames of any length
NextSystem == InitializeModels \/ Train \/ Predict \/ Return
SpecSystem == Init /\ [][NextSystem]_vars

\* the feature engineer on its own
NextFeatures == ExtractFeatures \/ Return
SpecFeatures == Init /\ [][NextFeatures]_vars

\* the sequence assembly of the long-horizon detector on its own
NextSequences == PrepareSequences \/ InferenceSequences \/ Return
SpecSequences == Init /\ [][NextSequences]_vars

\* convert_to_dataframe on its own
NextConvert == ConvertToDataframe \/ Return
SpecConvert == Init /\ [][NextConvert]_vars

\* the short-horizon detector: loading, then scoring batches
NextForest == InitializeModels \/ IsolationPredict \/ Return
SpecForest == Init /\ [][NextForest]_vars

\* loading, then SDDSystem.predict calls of several threads on the loaded system
NextParallel ==
    \/ InitializeModels
    \/ Return
    \/ \E t \in Threads : ThreadCall(t) \/ ThreadScore(t) \/ ThreadReturn(t)
SpecParallel == Init /\ [][NextParallel]_vars

-----------------------------------------------------------------------------
(* Properties of the scorer (SpecScorer) *)

RiskCategories ==
    {"Stable", "Early Instability", "Sustained Deterioration", "High-Risk Decline"}

\* C1: interpret_score maps every score to exactly one of the four categories:
\* "Stable" exactly for score >= 90, "Early Instability" exactly for
\* 70 <= score < 90, "Sustained Deterioration" exactly for 50 <= score < 70,
\* "High-Risk Decline" exactly for score < 50; so 90, 70 and 50 belong to the
\* higher tier.
C1_InterpretTiers ==
    call.op = "interpret_score" =>
        /\ call.category \in RiskCategories
        /\ (call.category = "Stable") <=> (call.score >= Pts(90))
        /\ (call.category = "Early Instability")
              <=> (call.score >= Pts(70) /\ call.score < Pts(90))
        /\ (call.category = "Sustained Deterioration")
              <=> (call.score >= Pts(50) /\ call.score < Pts(70))
        /\ (call.category = "High-Risk Decline") <=> (call.score < Pts(50))

\* the boundary score 90.0 has been interpreted, as "Stable"
C1_Witness ==
    call.op = "interpret_score" /\ call.score = Pts(90) /\ call.category = "Stable"

\* C2: calculate_score(a, b) is 0.4 * clip(a, 0, 100) + 0.6 * clip(b, 0, 100) for
\* all a and b, below 0 and above 100 included: an input below 0 counts as 0,
\* one above 100 as 100, and inputs inside [0, 100] give exactly 0.4a + 0.6b.
C2_FusionClips ==
    call.op = "calculate_score" =>
        LET ca == IF call.a < 0 THEN 0 ELSE IF call.a > Pts(100) THEN Pts(100) ELSE call.a
            cb == IF call.b < 0 THEN 0 ELSE IF call.b > Pts(100) THEN Pts(100) ELSE call.b
        IN  /\ 10 * call.score = 4 * ca + 6 * cb
            /\ (call.a \in 0..Pts(100) /\ call.b \in 0..Pts(100))
                  => 10 * call.score = 4 * call.a + 6 * call.b

\* calculate_score has run on -10 and 110: the result is 0.6 * 100
C2_Witness ==
    /\ call.op = "calculate_score"
    /\ call.a = Pts(0 - 10)
    /\ call.b = Pts(110)
    /\ call.score = Pts(60)

-----------------------------------------------------------------------------
(* Properties of the feature engineer (SpecFeatures) *)

\* what the fill chain owes for row i of a column: the cell itself when it is a
\* number, else the last number before it, else the first number after it,
\* else 0
FilledCell(col, i) ==
    IF ~col[i].nan THEN col[i]
    ELSE IF \E k \in 1..(i - 1) : ~col[k].nan
    THEN col[CHOOSE k \in 1..(i - 1) : ~col[k].nan /\ \A j \in (k + 1)..(i - 1) : col[j].nan]
    ELSE IF \E k \in (i + 1)..Len(col) : ~col[k].nan
    THEN col[CHOOSE k \in (i + 1)..Len(col) : ~col[k].nan /\ \A j \in (i + 1)..(k - 1) : col[j].nan]
    ELSE Num(0)

CrossSignal == {<<"bp_glucose", "corr", corr_window>>, <<"hr_activity", "corr", corr_window>>}

\* C25: the two cross-channel correlation features are computed only from full
\* 168-row windows: for an input of fewer than 168 rows both features are 0 in
\* every row, and for an input of at least 168 rows the first 167 rows carry
\* the value computed at row index 167 (0 where that window has no
\* correlation).  Does not hold: when a channel is constant over the first
\* full window, the rows are backfilled from a later window.
C25_CorrFromFirstFullWindow ==
    call.op = "extract_features" =>
        \A name \in CrossSignal :
            IF Len(call.frame.index) < corr_window
            THEN \A i \in 1..Len(call.frame.index) : call.features.columns[name][i] = Num(0)
            ELSE \A i \in 1..(corr_window - 1) :
                    call.features.columns[name][i] =
                        (IF call.unfilled[name][corr_window].nan THEN Num(0)
                         ELSE call.unfilled[name][corr_window])

\* the part of C25 that holds: no row before index 167 is computed from a
\* partial window, a short input gives 0, and the first 167 rows carry the
\* value of row index 167 when that window has a correlation
CorrelationFacts ==
    call.op = "extract_features" =>
        \A name \in CrossSignal :
            /\ \A i \in 1..Min(corr_window - 1, Len(call.frame.index)) : call.unfilled[name][i].nan
            /\ Len(call.frame.index) < corr_window =>
                  \A i \in 1..Len(call.frame.index) : call.features.columns[name][i] = Num(0)
            /\ (Len(call.frame.index) >= corr_window /\ ~call.unfilled[name][corr_window].nan) =>
                  \A i \in 1..(corr_window - 1) :
                      call.features.columns[name][i] = call.unfilled[name][corr_window]

-----------------------------------------------------------------------------
(* Properties of the validator (SpecValidator) *)

\* the call validated a list of at least 2 readings that all carry a timestamp
\* pd.to_datetime accepts
TimedList ==
    /\ call.op = "validate_rolling_window"
    /\ ~call.readings.isNone
    /\ Len(call.readings.list) >= 2
    /\ \A i \in 1..Len(call.readings.list) : call.readings.list[i].tsk = "ok"

Chronological(rs) == \A i \in 2..Len(rs) : rs[i - 1].ts <= rs[i].ts

Span(rs) == rs[Len(rs)].ts - rs[1].ts

\* C5: a chronologically ordered list of at least 2 readings is rejected when
\* its last timestamp minus its first is smaller than min_hours, and accepted
\* when that span is min_hours or more.
C5_SpanGate ==
    (TimedList /\ Chronological(call.readings.list)) =>
        /\ call.valid.is_valid <=> (Span(call.readings.list) >= call.min_hours)
        /\ ~call.valid.raised

\* a span of exactly 168 hours has been accepted with min_hours = 168
C5_Witness ==
    /\ TimedList
    /\ call.min_hours = 168
    /\ Span(call.readings.list) = 168
    /\ call.valid.is_valid

\* C6: a list of readings is rejected as out of order exactly when some reading
\* has a timestamp earlier than the reading before it; a list of non-decreasing
\* timestamps, equal adjacent ones included, passes the ordering check.
C6_OrderCheck ==
    TimedList =>
        (call.valid.error_msg = "Readings must be in chronological order"
            <=> \E i \in 2..Len(call.readings.list) :
                    call.readings.list[i].ts < call.readings.list[i - 1].ts)

\* a list with two equal adjacent timestamps has been accepted
C6_Witness ==
    /\ TimedList
    /\ \E i \in 2..Len(call.readings.list) :
          call.readings.list[i].ts = call.readings.list[i - 1].ts
    /\ call.valid.is_valid

\* C7: every input of fewer than 2 readings (None, the empty list, one reading)
\* is rejected, whatever its timestamps and whatever min_hours.
C7_TooFew ==
    (call.op = "validate_rolling_window"
        /\ (call.readings.isNone \/ Len(call.readings.list) < 2))
    => (~call.valid.is_valid /\ ~call.valid.raised /\ call.valid.error_msg # NoMsg)

\* one reading with a good timestamp has been rejected with min_hours = 0
C7_Witness ==
    /\ call.op = "validate_rolling_window"
    /\ ~call.readings.isNone
    /\ Len(call.readings.list) = 1
    /\ call.readings.list[1].tsk = "ok"
    /\ call.min_hours = 0
    /\ ~call.valid.is_valid

\* C8: when a reading lacks the timestamp field, at any position, the validator
\* returns a rejection with a reason and raises nothing.
C8_MissingTimestamp ==
    (call.op = "validate_rolling_window"
        /\ \E i \in 1..Len(call.readings.list) : call.readings.list[i].tsk = "missing")
    => (~call.valid.is_valid /\ ~call.valid.raised /\ call.valid.error_msg # NoMsg)

\* a list whose last reading alone lacks the timestamp has been rejected
C8_Witness ==
    /\ call.op = "validate_rolling_window"
    /\ Len(call.readings.list) >= 2
    /\ call.readings.list[Len(call.readings.list)].tsk = "missing"
    /\ \A i \in 1..(Len(call.readings.list) - 1) : call.readings.list[i].tsk = "ok"
    /\ ~call.valid.is_valid
    /\ ~call.valid.raised

-----------------------------------------------------------------------------
(* Properties of the short-horizon detector (SpecForest) *)

\* the detector has returned scores for a batch
IsolationScored == call.op = "isolation_predict" /\ call.outcome.kind = "return"

\* the lowest and the highest decision value of the batch
BatchLow == CHOOSE x \in {call.raw[k] : k \in 1..Len(call.raw)} :
                \A k \in 1..Len(call.raw) : x <= call.raw[k]
BatchHigh == CHOOSE x \in {call.raw[k] : k \in 1..Len(call.raw)} :
                \A k \in 1..Len(call.raw) : x >= call.raw[k]

\* output k is 100 * (d - min) / (max - min + 1e-6) of the call's own min and
\* max, to the 1/1000 point the scores are kept to, and lies in [0, 100]
NormalizedRow(k) ==
    /\ (call.results.isolation_scores[k] \div 10) * (BatchHigh - BatchLow + 1)
          <= 100000 * (call.raw[k] - BatchLow)
    /\ 100000 * (call.raw[k] - BatchLow)
          < ((call.results.isolation_scores[k] \div 10) + 1) * (BatchHigh - BatchLow + 1)
    /\ call.results.isolation_scores[k] >= 0
    /\ call.results.isolation_scores[k] <= Pts(100)

\* C17 as stated: every output is 100 * (d - min) / (max - min + 1e-6) over the
\* call's own batch and lies in [0, 100]; the least anomalous row (highest
\* decision value) maps near 100, within one point, and the most anomalous
\* near 0.  Does not hold: in a batch of identical values, a one-row batch
\* included, every row is the least anomalous one and maps to 0; with a spread
\* of 1e-6 the least anomalous row maps to 50.
C17_NormalizePerBatch ==
    IsolationScored =>
        \A k \in 1..Len(call.raw) :
            /\ NormalizedRow(k)
            /\ call.raw[k] = BatchHigh => call.results.isolation_scores[k] >= Pts(99)
            /\ call.raw[k] = BatchLow => call.results.isolation_scores[k] <= Pts(1)

\* what holds of every scored batch: one output per row, each below 100, and
\* exactly 0 for the most anomalous row; the least anomalous row is within one
\* point of 100 when max - min is at least 99e-6
NormalizeFacts ==
    IsolationScored =>
        /\ Len(call.results.isolation_scores) = Len(call.raw)
        /\ \A k \in 1..Len(call.raw) :
            /\ NormalizedRow(k)
            /\ call.results.isolation_scores[k] < Pts(100)
            /\ call.raw[k] = BatchLow => call.results.isolation_scores[k] = 0
            /\ (call.raw[k] = BatchHigh /\ BatchHigh - BatchLow >= 99)
                  => call.results.isolation_scores[k] >= Pts(99)

-----------------------------------------------------------------------------
(* Properties of SDDSystem.predict (SpecSystem) *)

\* SDDSystem.predict has returned its results
Predicted == call.op = "predict" /\ call.outcome.kind = "return"

\* C3: for every successful SDDSystem.predict call and every row of its output,
\* the fused health_stability_score lies in [0, 100] and its risk category is
\* one of the four tiers.
C3_FusedRange ==
    Predicted =>
        \A k \in 1..Len(call.results.health_stability_score) :
            /\ call.results.health_stability_score[k] >= 0
            /\ call.results.health_stability_score[k] <= Pts(100)
            /\ interpret_score(call.results.health_stability_score[k]) \in RiskCategories

\* one call has returned a row fused to 90 or more and a row fused below 50
C3_Witness ==
    /\ Predicted
    /\ \E k \in 1..Len(call.results.health_stability_score) :
          call.results.health_stability_score[k] >= Pts(90)
    /\ \E k \in 1..Len(call.results.health_stability_score) :
          /\ call.results.health_stability_score[k] < Pts(50)
          /\ (k - 1) \in call.results.network_rows

\* C4: in LSTMAutoencoder.predict_anomaly_score every row with index
\* i < sequence_length - 1 gets stability score exactly 100 and reconstruction
\* error exactly 0 and the network is not invoked for it; every row with index
\* i >= sequence_length - 1 is scored from the network's reconstruction of its
\* sequence.
C4_SentinelRows ==
    Predicted =>
        \A k \in 1..Len(call.data) :
            IF k - 1 < call.before.sequence_length - 1
            THEN /\ call.results.lstm_scores[k] = Pts(100)
                 /\ call.results.reconstruction_errors[k] = 0
                 /\ (k - 1) \notin call.results.network_rows
            ELSE /\ (k - 1) \in call.results.network_rows
                 /\ call.results.reconstruction_errors[k] = call.err[k]
                 /\ call.results.lstm_scores[k] =
                       stability_score(call.err[k], call.before.mean_baseline_error,
                                       call.before.std_baseline_error)

\* a frame longer than sequence_length - 1 has been scored: its first row holds
\* the sentinel, its last row a score below 100 from an error above the baseline
C4_Witness ==
    /\ Predicted
    /\ Len(call.data) >= call.before.sequence_length
    /\ call.results.lstm_scores[1] = Pts(100)
    /\ call.results.reconstruction_errors[1] = 0
    /\ call.results.reconstruction_errors[Len(call.data)] > call.before.mean_baseline_error
    /\ call.results.lstm_scores[Len(call.data)] < Pts(100)

\* row k (1-based) of the call had enough history and went through the network
ScoredRow(k) == (k - 1) \in call.results.network_rows

\* C18: for each row with sufficient history the long-horizon score is
\* 100 * exp(-z / 2) with z = max(0, (error - mean_baseline_error) /
\* (std_baseline_error + 1e-6)): exactly 100 whenever error <= mean, never
\* higher for a larger error, and always in [0, 100].
C18_StabilityScore ==
    Predicted =>
        \A k \in 1..Len(call.data) : ScoredRow(k) =>
            /\ call.results.lstm_scores[k] =
                  10 * exp_decay(Max(0, (1000 * (call.err[k] - call.before.mean_baseline_error))
                                          \div (call.before.std_baseline_error + 1)))
            /\ call.err[k] <= call.before.mean_baseline_error
                  => call.results.lstm_scores[k] = Pts(100)
            /\ call.results.lstm_scores[k] >= 0
            /\ call.results.lstm_scores[k] <= Pts(100)
            /\ \A j \in 1..Len(call.data) :
                  (ScoredRow(j) /\ call.err[k] <= call.err[j])
                      => call.results.lstm_scores[k] >= call.results.lstm_scores[j]

\* one call has scored a row whose error is below the baseline mean (100) and
\* a row whose error is above it (between 0 and 100)
C18_Witness ==
    /\ Predicted
    /\ \E k \in 1..Len(call.data) :
          /\ ScoredRow(k)
          /\ call.err[k] < call.before.mean_baseline_error
          /\ call.results.lstm_scores[k] = Pts(100)
    /\ \E k \in 1..Len(call.data) :
          /\ ScoredRow(k)
          /\ call.err[k] > call.before.mean_baseline_error
          /\ call.results.lstm_scores[k] > 0
          /\ call.results.lstm_scores[k] < Pts(100)

\* C20: SDDSystem.predict extracts the features exactly once, scores that one
\* matrix with both detectors, then fuses; isolation_scores, lstm_scores,
\* health_stability_score and reconstruction_errors have one entry per input
\* row, and entry i of each belongs to input row i.
C20_PredictAligned ==
    Predicted =>
        /\ call.steps = <<"extract_features", "isolation_detector.predict_anomaly_score",
                          "lstm_detector.predict_anomaly_score", "calculate_score">>
        /\ Len(call.results.isolation_scores) = Len(call.data)
        /\ Len(call.results.lstm_scores) = Len(call.data)
        /\ Len(call.results.health_stability_score) = Len(call.data)
        /\ Len(call.results.reconstruction_errors) = Len(call.data)
        /\ \A i \in 1..Len(call.data) :
              /\ call.results.isolation_scores[i] =
                    10 * ((100000 * (call.raw[i] - seq_min(call.raw)))
                            \div (seq_max(call.raw) - seq_min(call.raw) + 1))
              /\ call.results.lstm_scores[i] =
                    (IF i >= call.before.sequence_length
                     THEN stability_score(call.err[i], call.before.mean_baseline_error,
                                          call.before.std_baseline_error)
                     ELSE Pts(100))
              /\ call.results.reconstruction_errors[i] =
                    (IF i >= call.before.sequence_length THEN call.err[i] ELSE 0)
              /\ 10 * call.results.health_stability_score[i] =
                    4 * call.results.isolation_scores[i] + 6 * call.results.lstm_scores[i]

\* a frame of three rows has been scored: the rows differ in their isolation
\* score, in their reconstruction error and in their fused score
C20_Witness ==
    /\ Predicted
    /\ Len(call.data) = 3
    /\ call.raw[1] > call.raw[2] /\ call.raw[2] > call.raw[3]
    /\ call.results.isolation_scores[1] > call.results.isolation_scores[2]
    /\ call.results.isolation_scores[2] > call.results.isolation_scores[3]
    /\ call.results.reconstruction_errors[1] = 0
    /\ call.results.reconstruction_errors[2] > 0
    /\ call.results.reconstruction_errors[3] > call.results.reconstruction_errors[2]
    /\ call.results.health_stability_score[1] > call.results.health_stability_score[2]
    /\ call.results.health_stability_score[2] > call.results.health_stability_score[3]

\* the trained parameters of a system: forest and its scaler, network and its
\* scaler, baseline statistics and sequence_length
TrainedParameters(s) ==
    [iso_model |-> s.iso_model, iso_scaler |-> s.iso_scaler,
     iso_scaler_fit |-> s.iso_scaler_fit,
     lstm_model |-> s.lstm_model, lstm_scaler |-> s.lstm_scaler,
     lstm_scaler_fit |-> s.lstm_scaler_fit, input_dim |-> s.input_dim,
     has_stats |-> s.has_stats,
     mean_baseline_error |-> s.mean_baseline_error,
     std_baseline_error |-> s.std_baseline_error,
     sequence_length |-> s.sequence_length]

\* C14: on a loaded system every SDDSystem.predict call, whichever calls came
\* before it, leaves the trained parameters as they were: forest, both scalers
\* (applied, not refit), network, baseline statistics and sequence_length.
C14_PredictKeepsParameters ==
    (call.op = "predict" /\ AllInstalled(call.before)) =>
        /\ TrainedParameters(sdd) = TrainedParameters(call.before)
        /\ sdd.iso_scaler_fit = "baseline"
        /\ sdd.lstm_scaler_fit = "baseline"

\* a later call of a sequence has returned on a loaded system: it replaced the
\* reconstruction errors an earlier call had left on the detector
C14_Witness ==
    /\ Predicted
    /\ AllInstalled(call.before)
    /\ call.before.reconstruction_errors # <<>>
    /\ sdd.reconstruction_errors # call.before.reconstruction_errors

\* SDDSystem.train has returned
Trained == call.op = "train" /\ call.outcome.kind = "return"

\* the system train would leave had it fit the long-horizon detector first and
\* the short-horizon detector second, on the same training run
TrainSwapped(s, data, baseline) ==
    isolation_fit(lstm_fit(s, lstm_fit_input(s, train_features(data)), baseline).system,
                  train_features(data)).system

\* C19: SDDSystem.train extracts the features exactly once, then fits the
\* short-horizon detector, then the long-horizon detector, both on that one
\* feature matrix; the long-horizon fit uses nothing the short-horizon fit
\* produced, so the two fits in the other order leave the same trained state.
C19_TrainOrder ==
    Trained =>
        /\ call.steps = <<"extract_features", "isolation_detector.fit", "lstm_detector.fit">>
        /\ call.training.iso_input = train_features(call.training.data)
        /\ call.training.lstm_input = call.training.iso_input
        /\ sdd = TrainSwapped(call.before, call.training.data, call.training.baseline)

\* a new SDDSystem has been trained on 168 rows, exactly one sequence: both
\* detectors are fit and the network was built for the columns of the matrix
C19_Witness ==
    /\ Trained
    /\ NoneInstalled(call.before)
    /\ call.training.data.rows = default_sequence_length
    /\ AllInstalled(sdd)
    /\ sdd.input_dim = feature_count
    /\ sdd.iso_scaler_fit = "baseline" /\ sdd.lstm_scaler_fit = "baseline"

-----------------------------------------------------------------------------
(* Properties of parallel SDDSystem.predict calls (SpecParallel) *)

\* C15: prediction calls that run in parallel on one loaded SDDSystem do not
\* interfere: each returns isolation scores, LSTM scores, fused scores and
\* reconstruction_errors computed from its own input alone, in every
\* interleaving.  Does not hold: the returned reconstruction_errors are read
\* from the shared detector after the scoring, and may be another call's.
C15_ParallelCallsIndependent ==
    \A t \in Threads :
        threads[t].pc = "returned" =>
            threads[t].results =
                SDDSystem_predict(sdd, threads[t].n, threads[t].raw, threads[t].err).results

-----------------------------------------------------------------------------
(* Properties of the serving path (Spec) *)

\* a run of predict_anomaly_score, called directly or by the endpoint, has ended
Served == call.op \in {"predict_anomaly_score", "POST /api/ml/predict"}

\* C9: the serving path never reorders readings: for every request that passes
\* validation the rows given to SDDSystem.predict are the caller's readings in
\* the caller's order.  Does not hold: sort_values may permute readings of
\* equal timestamp, which the validator lets through.
C9_NeverReorders ==
    (Served /\ call.predict_calls > 0) =>
        call.data = fill_channels(rename(call.readings.list))

\* C10: a request whose readings fail validate_rolling_window never reaches
\* SDDSystem.predict and ends as the rejection that carries the validator's
\* reason: ValueError from predict_anomaly_score, HTTP 400 from the endpoint.
\* Does not hold: with no global system yet, initialize_models runs before the
\* validator and a failing load ends the request with the loader's exception.
C10_ValidationGates ==
    (Served /\ ~validate_rolling_window(call.readings, serving_min_hours).is_valid) =>
        /\ call.predict_calls = 0
        /\ call.outcome.origin = "validate"
        /\ call.outcome.kind =
              (IF call.op = "predict_anomaly_score" THEN "ValueError" ELSE "HTTP400")
        /\ call.outcome.reason =
              validate_rolling_window(call.readings, serving_min_hours).error_msg

\* the run reached SDDSystem.predict on a global system that existed before the
\* request and is not fully loaded
PredictedNotReady ==
    Served /\ call.predict_calls > 0 /\ call.before.created /\ ~AllInstalled(call.before)

\* C11: a prediction attempted before the models are trained or loaded fails,
\* and not through the outcome a rejected rolling window uses (ValueError from
\* predict_anomaly_score, HTTP 400 from the endpoint).  Does not hold: an
\* unfitted scaler or forest raises NotFittedError, which is a ValueError, and
\* a system that lacks only stats.pkl returns scores for a short frame.
C11_NotReadyDistinct ==
    PredictedNotReady =>
        call.outcome.kind \notin {"return", "HTTP200", "ValueError", "HTTP400"}

\* C12: when a load fails during startup, no later prediction request returns a
\* score.  Does not hold: startup_event swallows the exception and the
\* application serves; with stats.pkl unreadable sequence_length stays 168 and
\* every row of a shorter frame gets the sentinel, so the request returns.
C12_LoadFailureFatal ==
    (started /\ ~models_loaded /\ Served) =>
        call.outcome.kind \notin {"return", "HTTP200"}

\* C13: the global system a request runs SDDSystem.predict on has none of the
\* trained artifacts installed or all of them.  Does not hold:
\* initialize_models publishes the new SDDSystem before load_trained_models
\* fills it, and a load that raises half way leaves it in place.
C13_NoHalfLoaded ==
    (Served /\ call.predict_calls > 0) =>
        (AllInstalled(call.before) \/ NoneInstalled(call.before))

\* the run returned a prediction: a dict to the caller, HTTP 200 to the client
Returned == Served /\ call.outcome.kind \in {"return", "HTTP200"}

\* C21: for every accepted request the response describes the most recent
\* reading: the three scores are those of the last row of the results, the
\* timestamp is the latest timestamp of the request, and riskCategory is
\* interpret_score of the returned healthStabilityScore.
C21_MostRecentReading ==
    Returned =>
        LET last == Len(call.data)
        IN  /\ last = Len(call.readings.list)
            /\ call.response.healthStabilityScore = call.results.health_stability_score[last]
            /\ call.response.isolationScore = call.results.isolation_scores[last]
            /\ call.response.lstmScore = call.results.lstm_scores[last]
            /\ \A i \in 1..last : call.readings.list[i].ts <= call.response.timestamp
            /\ \E i \in 1..last : call.readings.list[i].ts = call.response.timestamp
            /\ call.response.riskCategory = interpret_score(call.response.healthStabilityScore)

\* a request of three readings was answered, the last row 168 hours after the
\* first and with scores of its own
C21_Witness ==
    /\ Returned
    /\ Len(call.data) = 3
    /\ call.readings.list[1].ts < call.response.timestamp
    /\ call.results.health_stability_score[1] # call.response.healthStabilityScore
    /\ call.results.isolation_scores[1] # call.response.isolationScore
    /\ call.results.lstm_scores[1] # call.response.lstmScore
    /\ call.response.riskCategory # interpret_score(call.results.health_stability_score[1])

\* C22: in the response reconstructionError is null if and only if the most
\* recent reading had insufficient history (its row index is below
\* sequence_length - 1); whenever the network reconstructed the last row's
\* sequence, the error it measured is returned as a number.  Does not hold:
\* line 187 tests the error with > 0, so a sequence the network reconstructs
\* with error 0 is answered with null as well.
C22_ErrorNullIffNoHistory ==
    Returned =>
        LET last == Len(call.data)
            unscored == insufficient_history(last - 1, sdd.sequence_length)
        IN  /\ call.response.reconstructionError.isNone <=> unscored
            /\ ~unscored =>
                  call.response.reconstructionError = [isNone |-> FALSE, value |-> call.err[last]]

\* the part of C22 that holds: a last row without history is answered with
\* null, and an error above 0 is returned as it was measured
ReconstructionErrorFacts ==
    Returned =>
        LET last == Len(call.data)
        IN  /\ insufficient_history(last - 1, sdd.sequence_length) =>
                  call.response.reconstructionError.isNone
            /\ call.err[last] > 0 =>
                  call.response.reconstructionError = [isNone |-> FALSE, value |-> call.err[last]]

\* C27: the rolling-window gate ensures enough history for the long-horizon
\* detector: for every request that passes validate_rolling_window with
\* min_hours=168 the most recent reading is scored by the network on a full
\* sequence and does not receive the insufficient-history sentinel.  Does not
\* hold: the gate measures the time between the first and the last reading,
\* the detector counts rows.
C27_GateEnsuresHistory ==
    (Served /\ call.valid.is_valid /\ call.predict_calls > 0) =>
        /\ ~insufficient_history(Len(call.data) - 1, sdd.sequence_length)
        /\ Returned => (Len(call.data) - 1) \in call.results.network_rows

\* C29: a request whose readings fail validation gets the validation rejection
\* in every model state (never initialized, load failed, fully loaded), and
\* handling it changes no model state: it neither creates the global system
\* nor loads any artifact.  Does not hold: with no global system yet,
\* initialize_models runs before the validator.
C29_RejectionLeavesModels ==
    (Served /\ ~validate_rolling_window(call.readings, serving_min_hours).is_valid) =>
        /\ call.outcome.origin = "validate"
        /\ call.outcome.kind \in {"ValueError", "HTTP400"}
        /\ sdd = call.before

\* the part of C29 that holds: once a global system exists, loaded or half
\* loaded, an invalid request is rejected by the validator and changes nothing
RejectionOnceCreated ==
    (Served /\ call.before.created
            /\ ~validate_rolling_window(call.readings, serving_min_hours).is_valid) =>
        /\ call.outcome.origin = "validate"
        /\ call.outcome.kind \in {"ValueError", "HTTP400"}
        /\ sdd = call.before

\* C30: the health endpoint agrees with what the service can do: models_loaded
\* is true (status "healthy") exactly when startup loaded every artifact, it
\* never changes after startup, and whenever a prediction request returns a
\* score models_loaded is true.  Does not hold: a load that failed leaves a
\* global system that later requests use, and that a later startup takes for
\* a loaded one.
C30_HealthAgrees ==
    /\ started => (models_loaded <=> AllInstalled(sdd))
    /\ call.op = "GET /api/ml/health" =>
          /\ call.health.models_loaded <=> AllInstalled(sdd)
          /\ call.health.status = "healthy" <=> AllInstalled(sdd)
    /\ (call.op = "POST /api/ml/predict" /\ Returned) => models_loaded

\* the part of C30 that holds: the answer reports the flag, and the flag is
\* written by startup_event only
HealthReportsFlag ==
    call.op = "GET /api/ml/health" =>
        /\ call.health.models_loaded = models_loaded
        /\ call.health.status = "healthy" <=> models_loaded
        /\ sdd = call.before

HealthNeverChanges == [][started => models_loaded' = models_loaded]_vars

-----------------------------------------------------------------------------
(* The lowest row of a batch (SpecSystem) *)

\* C28: in every SDDSystem.predict call on at least one row, the row with the
\* lowest raw isolation value gets isolation score 0, so its fused score is at
\* most 60 and its risk category is never "Stable" nor "Early Instability",
\* whatever its long-horizon score is; a one-row batch always has isolation
\* score 0.
C28_LowestRowCapped ==
    (Predicted /\ Len(call.data) >= 1) =>
        /\ \A k \in 1..Len(call.data) :
              (\A j \in 1..Len(call.data) : call.raw[k] <= call.raw[j]) =>
                  /\ call.results.isolation_scores[k] = 0
                  /\ call.results.health_stability_score[k] <= Pts(60)
                  /\ interpret_score(call.results.health_stability_score[k])
                        \notin {"Stable", "Early Instability"}
        /\ Len(call.data) = 1 => call.results.isolation_scores[1] = 0

\* a batch of three rows: the lowest row has the best long-horizon score there
\* is and a fused score of exactly 60, another row is "Stable"
C28_Witness ==
    /\ Predicted
    /\ Len(call.data) = 3
    /\ \E k, j \in 1..3 :
          /\ \A i \in 1..3 : call.raw[k] <= call.raw[i]
          /\ call.results.lstm_scores[k] = Pts(100)
          /\ call.results.health_stability_score[k] = Pts(60)
          /\ interpret_score(call.results.health_stability_score[j]) = "Stable"

-----------------------------------------------------------------------------
(* Lifecycle of the long-horizon detector (SpecSystem) *)

\* the detector is Trained when its network is present (self.model is not None)
LstmTrained(s) == s.lstm_model

\* C23: the lifecycle of the long-horizon detector is one-way, Untrained to
\* Trained: the network is absent until fit or load installs it, no later
\* operation (predict, a second fit, a second initialize_models) returns the
\* detector to Untrained, and whenever the detector is Trained its baseline
\* statistics are set.  Does not hold: a load that fails after model.keras
\* leaves the network installed and the statistics unset.
C23_LstmLifecycle ==
    /\ (call.op \in {"initialize_models", "train", "predict"} /\ LstmTrained(call.before)) =>
          LstmTrained(sdd)
    /\ (LstmTrained(sdd) /\ call.op # "idle" /\ ~LstmTrained(call.before)) =>
          call.op \in {"initialize_models", "train"}
    /\ LstmTrained(sdd) => sdd.has_stats

\* the part of C23 that holds: no operation takes the network away, and only
\* fit and load install it
LstmOneWay ==
    /\ (call.op \in {"initialize_models", "train", "predict"} /\ LstmTrained(call.before)) =>
          LstmTrained(sdd)
    /\ (LstmTrained(sdd) /\ call.op # "idle" /\ ~LstmTrained(call.before)) =>
          call.op \in {"initialize_models", "train"}

-----------------------------------------------------------------------------
(* Properties of convert_to_dataframe (SpecConvert) *)

SensorChannels == {"blood_pressure", "blood_glucose", "heart_rate", "activity"}

\* C24: convert_to_dataframe leaves no missing value in the four sensor
\* channels: a missing value takes the most recent earlier present value of its
\* channel, a missing value with no earlier present value takes the first
\* later present value, and a channel with no present value at all becomes 0
\* in every row; the number of rows equals the number of readings.
C24_ChannelsFilled ==
    call.op = "convert_to_dataframe" =>
        /\ Len(call.data) = Len(call.readings.list)
        /\ \A c \in SensorChannels :
              /\ \A i \in 1..Len(call.data) :
                    /\ ~call.data[i][c].nan
                    /\ call.data[i][c] = FilledCell(column(call.unfilled, c), i)
              /\ (\A i \in 1..Len(call.data) : column(call.unfilled, c)[i].nan) =>
                    \A i \in 1..Len(call.data) : call.data[i][c] = Num(0)

\* three readings: the heart rate is missing in the first and the last and
\* present in between (backward, then forward fill), the blood pressure is
\* missing in the second only, glucose was never reported
C24_Witness ==
    /\ call.op = "convert_to_dataframe"
    /\ Len(call.data) = 3
    /\ call.unfilled[1].heart_rate.nan /\ call.unfilled[3].heart_rate.nan
    /\ call.unfilled[2].heart_rate = Num(90)
    /\ call.data[1].heart_rate = Num(90) /\ call.data[3].heart_rate = Num(90)
    /\ call.unfilled[1].blood_pressure = Num(120) /\ call.unfilled[2].blood_pressure.nan
    /\ call.data[2].blood_pressure = Num(120)
    /\ \A i \in 1..3 : call.data[i].blood_glucose = Num(0)

-----------------------------------------------------------------------------
(* Properties of the sequence assembly (SpecSequences) *)

\* rows lo..hi (0-based, inclusive) of the matrix scaled with the mean and
\* std of `fit`
ScaledRows(fit, matrix, lo, hi) ==
    [j \in 1..(hi - lo + 1) |-> StandardScaler_transform(StandardScaler_fit(fit), matrix)[lo + j]]

\* C26: for a feature matrix of n rows and sequence length L,
\* prepare_sequences builds exactly max(0, n - L + 1) sequences, sequence k
\* being rows k..k+L-1 (stride 1, overlap L-1); at inference the sequence
\* assembled for row t >= L-1 is rows t-L+1..t, so on the training matrix the
\* inference sequence of row t is training sequence t-L+1.
C26_SequenceAssembly ==
    /\ call.op = "prepare_sequences" =>
          LET n == Len(call.features)
              L == call.training.sequence_length
          IN  /\ Len(call.sequences) = Max(0, n - L + 1)
              /\ \A k \in 0..(Len(call.sequences) - 1) :
                    call.sequences[k + 1] = ScaledRows(call.features, call.features, k, k + L - 1)
    /\ call.op = "inference_sequences" =>
          LET L == call.training.sequence_length
          IN  \A t \in 0..(Len(call.features) - 1) :
                /\ t >= L - 1 =>
                      call.sequences[t + 1] =
                          ScaledRows(call.training.features, call.features, t - L + 1, t)
                /\ (t >= L - 1 /\ call.features = call.training.features) =>
                      call.sequences[t + 1] =
                          prepare_sequences(call.training.features, L).sequences[t - L + 1 + 1]

\* four rows with sequence length 3: training builds two sequences that
\* overlap in two rows
C26_Witness ==
    /\ call.op = "prepare_sequences"
    /\ Len(call.features) = 4
    /\ call.training.sequence_length = 3
    /\ Len(call.sequences) = 2
    /\ call.sequences[1] # call.sequences[2]
    /\ SubSeq(call.sequences[1], 2, 3) = SubSeq(call.sequences[2], 1, 2)

\* the last row of the training matrix at inference: its sequence is the last
\* training sequence, and not the first
InferenceOnTraining ==
    /\ call.op = "inference_sequences"
    /\ call.features = call.training.features
    /\ Len(call.features) = 4
    /\ call.training.sequence_length = 3
    /\ call.sequences[4] = prepare_sequences(call.features, 3).sequences[2]
    /\ call.sequences[4] # prepare_sequences(call.features, 3).sequences[1]

====
